---- MODULE Spec2Model ----
(***************************************************************************)
(* Model of server/parser/pgsql.c of rteval: the submission queue          *)
(* (db_get_submissionqueue_job, db_update_submissionqueue), the generic    *)
(* insertion engine (pgsql_INSERT) and the registration of a report        *)
(* (db_register_system, db_register_rtevalrun, db_register_cyclictest).    *)
(*                                                                         *)
(* Worker threads each own one database connection; the database executes  *)
(* each statement atomically (autocommit).  A worker's position inside a   *)
(* function is pc[w]; its locals are job[w] / arg[w] / ins[w].             *)
(***************************************************************************)
EXTENDS Integers, Sequences, FiniteSets, TLC

\* ------------------------------------------------------------------ bounds
NumWorkers == 2
NumJobs == 2
MaxTime == 2
MaxFid == 2
MaxFields == 2
MaxRecs == 3
NumSysids == 2
NumHosts == 2
MaxCalls == 2

Workers == 1..NumWorkers
Jobs == 1..NumJobs
Times == 1..MaxTime
FirstWorker == CHOOSE w \in Workers : \A v \in Workers : w <= v

\* ------------------------------------------------------- status constants
STAT_NEW == "STAT_NEW"
STAT_ASSIGNED == "STAT_ASSIGNED"
STAT_INPROG == "STAT_INPROG"
STAT_SUCCESS == "STAT_SUCCESS"
STAT_UNKNFAIL == "STAT_UNKNFAIL"
STAT_XMLFAIL == "STAT_XMLFAIL"
STAT_SYSREG == "STAT_SYSREG"
STAT_GENDB == "STAT_GENDB"
STAT_RTEVRUNS == "STAT_RTEVRUNS"
STAT_CYCLIC == "STAT_CYCLIC"

TerminalStatuses ==
  {STAT_SUCCESS, STAT_UNKNFAIL, STAT_XMLFAIL, STAT_SYSREG, STAT_GENDB,
   STAT_RTEVRUNS, STAT_CYCLIC}
KnownStatuses == {STAT_NEW, STAT_ASSIGNED, STAT_INPROG} \cup TerminalStatuses
\* integers that are none of the STAT_ constants (the switch's default)
OtherStatuses == {"STAT_OTHER_A", "STAT_OTHER_B"}
AllStatusArgs == KnownStatuses \cup OtherStatuses
ValidTargets == KnownStatuses \ {STAT_NEW}

\* results of a libpq call
PGRES_COMMAND_OK == "PGRES_COMMAND_OK"
PGRES_TUPLES_OK == "PGRES_TUPLES_OK"
PGRES_FATAL_ERROR == "PGRES_FATAL_ERROR"
PGRES_NULL == "NULL"

NULL == 0
Filename(j) == <<"report", j>>
NoFile == <<"report", 0>>

\* ------------------------------------------------------------------ state
VARIABLES
  queue,      \* table submissionqueue: submid -> [status, filename, parsestart, parseend]
  mtx,        \* the pthread mutex: 0 when free, else the worker holding it
  pc,         \* per worker: where it is
  job,        \* per worker: the parseJob_t of db_get_submissionqueue_job
  arg,        \* per worker: the arguments of the running db_update_submissionqueue
  ret,        \* per worker: what its last call returned
  delivered,  \* per job: how many db_get_submissionqueue_job calls returned it
  ins,        \* per worker: the locals of the running pgsql_INSERT
  tbl,        \* the table pgsql_INSERT writes to: the rows inserted so far
  oidbuf,     \* pgsql_INSERT's "static char oid[32]", shared by all threads
  queue0,     \* history: the submissionqueue table the run started with
  systems,            \* table systems: rows [syskey, sysid]
  systems_hostname,   \* table systems_hostname: rows [syskey, hostname, ipaddr]
  rtevalruns,         \* table rtevalruns: rows [rterid, syskey]
  rtevalruns_details, \* table rtevalruns_details: rows [id, rterid]
  cyclic_statistics,  \* table cyclic_statistics: rows [id, rterid]
  cyclic_rawdata,     \* table cyclic_rawdata: rows [id, rterid]
  reg,        \* per worker: the locals of the running db_register_* function
  calls       \* history: the db_register_* calls that returned, in order

qvars == <<queue, mtx, job, arg, delivered, queue0>>
ivars == <<ins, tbl, oidbuf>>
tvars == <<systems, systems_hostname, rtevalruns, rtevalruns_details,
           cyclic_statistics, cyclic_rawdata>>
rvars == <<tvars, reg, calls>>
vars == <<queue, mtx, pc, job, arg, ret, delivered, ins, tbl, oidbuf, queue0,
          systems, systems_hostname, rtevalruns, rtevalruns_details,
          cyclic_statistics, cyclic_rawdata, reg, calls>>

NoJob == [status |-> "unset", submid |-> 0, filename |-> NoFile]
NoArg == [submid |-> 0, status |-> STAT_NEW]
Ret(op, code, sent, j, list) ==
  [op |-> op, code |-> code, sent |-> sent, job |-> j, list |-> list]
NoRet == Ret("none", 0, FALSE, NoJob, <<>>)

\* ------------------------------------------- db_update_submissionqueue
\* a switch that also builds a statement for STAT_NEW
UpdateSql_AcceptNew(status) ==
  CASE status \in {STAT_ASSIGNED, STAT_NEW} -> "status"
    [] status = STAT_INPROG -> "status,parsestart"
    [] status \in TerminalStatuses -> "status,parseend"
    [] OTHER -> "none"

\* the statement the switch builds for a status ("none": return 0)
UpdateSql(status) ==
  CASE status = STAT_ASSIGNED -> "status"
    [] status = STAT_INPROG -> "status,parsestart"
    [] status \in TerminalStatuses -> "status,parseend"
    [] OTHER -> "none"

\* an UPDATE whose STAT_INPROG statement stamps parseend as well
ExecUpdate_StampsEnd(q, sql, submid, status, now) ==
  [j \in DOMAIN q |->
     IF j # submid THEN q[j]
     ELSE CASE sql = "status" -> [q[j] EXCEPT !.status = status]
            [] sql = "status,parsestart" ->
                 [q[j] EXCEPT !.status = status, !.parsestart = now, !.parseend = now]
            [] sql = "status,parseend" ->
                 [q[j] EXCEPT !.status = status, !.parseend = now]]

\* UPDATE submissionqueue SET ... WHERE submid = <submid>
ExecUpdate(q, sql, submid, status, now) ==
  [j \in DOMAIN q |->
     IF j # submid THEN q[j]
     ELSE CASE sql = "status" -> [q[j] EXCEPT !.status = status]
            [] sql = "status,parsestart" ->
                 [q[j] EXCEPT !.status = status, !.parsestart = now]
            [] sql = "status,parseend" ->
                 [q[j] EXCEPT !.status = status, !.parseend = now]]

\* a version that puts the job back to STAT_NEW when the database fails
db_update_submissionqueue_Requeue(q, submid, status, now, dbres) ==
  LET sql == UpdateSql(status) IN
  IF sql = "none" THEN [code |-> 0, sent |-> FALSE, queue |-> q]
  ELSE IF dbres # PGRES_COMMAND_OK
    THEN [code |-> -1, sent |-> TRUE,
          queue |-> [j \in DOMAIN q |->
                       IF j = submid THEN [q[j] EXCEPT !.status = STAT_NEW] ELSE q[j]]]
  ELSE [code |-> 1, sent |-> TRUE,
        queue |-> ExecUpdate(q, sql, submid, status, now)]

\* a version whose statement takes effect although -1 is returned
db_update_submissionqueue_WritesOnError(q, submid, status, now, dbres) ==
  LET sql == UpdateSql(status) IN
  IF sql = "none" THEN [code |-> 0, sent |-> FALSE, queue |-> q]
  ELSE [code |-> IF dbres = PGRES_COMMAND_OK THEN 1 ELSE 0 - 1, sent |-> TRUE,
        queue |-> ExecUpdate(q, sql, submid, status, now)]

\* the whole function: its return code, whether PQexec was called, the table after
db_update_submissionqueue(q, submid, status, now, dbres) ==
  LET sql == UpdateSql(status) IN
  IF sql = "none" THEN [code |-> 0, sent |-> FALSE, queue |-> q]
  ELSE IF dbres = PGRES_NULL THEN [code |-> -1, sent |-> TRUE, queue |-> q]
  ELSE IF dbres # PGRES_COMMAND_OK THEN [code |-> -1, sent |-> TRUE, queue |-> q]
  ELSE [code |-> 1, sent |-> TRUE,
        queue |-> ExecUpdate(q, sql, submid, status, now)]

UpdateOutcomes == {PGRES_COMMAND_OK, PGRES_FATAL_ERROR, PGRES_NULL}

\* a caller enters db_update_submissionqueue(dbc, submid, status)
CallUpdate(w, submid, status) ==
  /\ pc[w] = "idle"
  /\ pc' = [pc EXCEPT ![w] = "update"]
  /\ arg' = [arg EXCEPT ![w] = [submid |-> submid, status |-> status]]
  /\ ret' = [ret EXCEPT ![w] = NoRet]
  /\ UNCHANGED <<queue, mtx, job, delivered, queue0, ivars, rvars>>

\* the switch, PQexec and the return
DoUpdate(w, now, dbres) ==
  /\ pc[w] = "update"
  /\ LET r == db_update_submissionqueue(queue, arg[w].submid, arg[w].status, now, dbres)
     IN /\ queue' = r.queue
        /\ ret' = [ret EXCEPT ![w] =
                     Ret("update", r.code, r.sent, NoJob, <<>>)]
  /\ pc' = [pc EXCEPT ![w] = "idle"]
  /\ UNCHANGED <<mtx, job, arg, delivered, queue0, ivars, rvars>>

\* ------------------------------------------ db_get_submissionqueue_job
\* the same query with ORDER BY submid DESC
SelectFirstNew_Descending(q) ==
  LET new == {j \in DOMAIN q : q[j].status = STAT_NEW} IN
  IF new = {} THEN {} ELSE {CHOOSE j \in new : \A k \in new : j >= k}

\* SELECT submid, filename FROM submissionqueue WHERE status = STAT_NEW
\*  ORDER BY submid LIMIT 1
SelectFirstNew(q) ==
  LET new == {j \in DOMAIN q : q[j].status = STAT_NEW} IN
  IF new = {} THEN {} ELSE {CHOOSE j \in new : \A k \in new : j <= k}

SelectOutcomes == {PGRES_TUPLES_OK, PGRES_FATAL_ERROR}

\* entry: malloc_nullsafe of the parseJob_t
CallCheckout(w, mallocok) ==
  /\ pc[w] = "idle"
  /\ IF mallocok
       THEN /\ pc' = [pc EXCEPT ![w] = "lock"]
            /\ ret' = [ret EXCEPT ![w] = NoRet]
       ELSE /\ pc' = pc
            /\ ret' = [ret EXCEPT ![w] =
                         Ret("checkout", 0, FALSE, NoJob, <<>>)]
  /\ job' = [job EXCEPT ![w] = NoJob]
  /\ UNCHANGED <<queue, mtx, arg, delivered, queue0, ivars, rvars>>

\* a lock that does not wait for the holder
Lock_NoWait(w) ==
  /\ pc[w] = "lock"
  /\ mtx' = w
  /\ pc' = [pc EXCEPT ![w] = "select"]
  /\ UNCHANGED <<queue, job, arg, ret, delivered, queue0, ivars, rvars>>

\* pthread_mutex_lock(mtx)
Lock(w) ==
  /\ pc[w] = "lock"
  /\ mtx = 0
  /\ mtx' = w
  /\ pc' = [pc EXCEPT ![w] = "select"]
  /\ UNCHANGED <<queue, job, arg, ret, delivered, queue0, ivars, rvars>>

\* a SELECT after which the mutex is released at once
Select_ReleasesAfterRead(w, dbres) ==
  /\ pc[w] = "select"
  /\ mtx' = 0
  /\ IF dbres # PGRES_TUPLES_OK
       THEN /\ pc' = [pc EXCEPT ![w] = "idle"]
            /\ job' = [job EXCEPT ![w] = NoJob]
            /\ ret' = [ret EXCEPT ![w] =
                         Ret("checkout", 0, TRUE, NoJob, <<>>)]
       ELSE LET rows == SelectFirstNew(queue) IN
            /\ ret' = ret
            /\ IF Cardinality(rows) = 1
                 THEN LET j == CHOOSE r \in rows : TRUE IN
                      /\ job' = [job EXCEPT ![w] =
                                   [status |-> "jbAVAIL", submid |-> j,
                                    filename |-> queue[j].filename]]
                      /\ pc' = [pc EXCEPT ![w] = "mark"]
                 ELSE /\ job' = [job EXCEPT ![w] = [NoJob EXCEPT !.status = "jbNONE"]]
                      /\ pc' = [pc EXCEPT ![w] = "unlock"]
  /\ UNCHANGED <<queue, arg, delivered, queue0, ivars, rvars>>

\* PQexec of the SELECT and the branch on its result
Select(w, dbres) ==
  /\ pc[w] = "select"
  /\ IF dbres # PGRES_TUPLES_OK
       THEN \* unlock, free the job, return NULL
            /\ mtx' = 0
            /\ pc' = [pc EXCEPT ![w] = "idle"]
            /\ job' = [job EXCEPT ![w] = NoJob]
            /\ ret' = [ret EXCEPT ![w] =
                         Ret("checkout", 0, TRUE, NoJob, <<>>)]
       ELSE LET rows == SelectFirstNew(queue) IN
            /\ mtx' = mtx
            /\ ret' = ret
            /\ IF Cardinality(rows) = 1
                 THEN LET j == CHOOSE r \in rows : TRUE IN
                      /\ job' = [job EXCEPT ![w] =
                                   [status |-> "jbAVAIL", submid |-> j,
                                    filename |-> queue[j].filename]]
                      /\ pc' = [pc EXCEPT ![w] = "mark"]
                 ELSE /\ job' = [job EXCEPT ![w] = [NoJob EXCEPT !.status = "jbNONE"]]
                      /\ pc' = [pc EXCEPT ![w] = "unlock"]
  /\ UNCHANGED <<queue, arg, delivered, queue0, ivars, rvars>>

\* a failure path of the UPDATE that returns without pthread_mutex_unlock
Mark_KeepsLock(w, now, dbres) ==
  /\ pc[w] = "mark"
  /\ LET r == db_update_submissionqueue(queue, job[w].submid, STAT_ASSIGNED, now, dbres)
     IN /\ queue' = r.queue
        /\ mtx' = mtx
        /\ IF r.code < 1
             THEN /\ pc' = [pc EXCEPT ![w] = "idle"]
                  /\ job' = [job EXCEPT ![w] = NoJob]
                  /\ ret' = [ret EXCEPT ![w] =
                               Ret("checkout", 0, TRUE, NoJob, <<>>)]
             ELSE /\ pc' = [pc EXCEPT ![w] = "unlock"]
                  /\ job' = job
                  /\ ret' = ret
  /\ UNCHANGED <<arg, delivered, queue0, ivars, rvars>>

\* db_update_submissionqueue(dbc, job->submid, STAT_ASSIGNED) < 1 ?
Mark(w, now, dbres) ==
  /\ pc[w] = "mark"
  /\ LET r == db_update_submissionqueue(queue, job[w].submid, STAT_ASSIGNED, now, dbres)
     IN /\ queue' = r.queue
        /\ IF r.code < 1
             THEN /\ mtx' = 0
                  /\ pc' = [pc EXCEPT ![w] = "idle"]
                  /\ job' = [job EXCEPT ![w] = NoJob]
                  /\ ret' = [ret EXCEPT ![w] =
                               Ret("checkout", 0, TRUE, NoJob, <<>>)]
             ELSE /\ mtx' = mtx
                  /\ pc' = [pc EXCEPT ![w] = "unlock"]
                  /\ job' = job
                  /\ ret' = ret
  /\ UNCHANGED <<arg, delivered, queue0, ivars, rvars>>

\* pthread_mutex_unlock(mtx); PQclear(res); return job
Unlock(w) ==
  /\ pc[w] = "unlock"
  /\ mtx' = 0
  /\ pc' = [pc EXCEPT ![w] = "idle"]
  /\ ret' = [ret EXCEPT ![w] =
               Ret("checkout", 1, TRUE, job[w], <<>>)]
  /\ delivered' = IF job[w].status = "jbAVAIL"
                    THEN [delivered EXCEPT ![job[w].submid] = @ + 1]
                    ELSE delivered
  /\ UNCHANGED <<queue, job, arg, queue0, ivars, rvars>>

\* ------------------------------------------------------------ pgsql_INSERT
\* The sqldata document: key is the root's key attribute ("" when absent),
\* fields the <field> elements in document order, n the number of <record>s.
\* A record is the sequence of its <value> elements, [fid, content].
ColName(k) == <<"col", k>>
Value(f) == [fid |-> f, content |-> <<"val", f>>]
NullValue == <<>>
KeyName == "syskey"

Fids == 0..MaxFid
FidArgs == (0 - 1)..MaxFid

SeqsUpTo(S, n) == UNION {[1..k -> S] : k \in 0..n}

IsInjective(q) == \A a, b \in 1..Len(q) : q[a] = q[b] => a = b

\* field lists: unique ids, one name per position
FieldLists ==
  {[k \in 1..Len(q) |-> [fid |-> q[k], name |-> ColName(k)]] :
     q \in {r \in SeqsUpTo(Fids, MaxFields) : Len(r) >= 1 /\ IsInjective(r)}}

\* every record a document with these fields may carry
AllRecords(fields) ==
  {[k \in 1..Len(q) |-> Value(q[k])] : q \in SeqsUpTo(FidArgs, Len(fields) + 2)}

\* the records with exactly one value per declared field, in any order
WellFormedRecords(fields) ==
  {[k \in 1..Len(fields) |-> Value(fields[p[k]].fid)] :
     p \in {q \in [1..Len(fields) -> 1..Len(fields)] : IsInjective(q)}}

\* the record listing one value per declared field, in the declared order
DeclaredOrderRecord(fields) == [k \in 1..Len(fields) |-> Value(fields[k].fid)]

\* field_idx: calloc(fieldcnt+1) filled with the fid of each <field>
FieldIdx(fields) ==
  [k \in 1..(Len(fields) + 1) |-> IF k <= Len(fields) THEN fields[k].fid ELSE 0]

\* value_ar: calloc(fieldcnt); C index k is kept at k+1
EmptyValueAr(fieldcnt) == [k \in 1..fieldcnt |-> NullValue]

\* one pass of the loop over a record's <value> nodes, from counter i on
RECURSIVE BindValues(_, _, _, _, _)
BindValues(field_idx, fieldcnt, vals, i, st) ==
  IF vals = <<>> \/ i > fieldcnt THEN st
  ELSE LET v == Head(vals) IN
       IF v.fid < 0 THEN BindValues(field_idx, fieldcnt, Tail(vals), i, st)
       ELSE LET slot == field_idx[i + 1] IN
            BindValues(field_idx, fieldcnt, Tail(vals), i + 1,
              IF slot < fieldcnt
                THEN [st EXCEPT !.value_ar[slot + 1] = v.content,
                                !.written = @ \cup {slot}]
                ELSE [st EXCEPT !.oob = @ \cup {slot}])

\* the value array built for one record, and the slots written outside it
BindRecord(fields, rec) ==
  BindValues(FieldIdx(fields), Len(fields), rec, 0,
             [value_ar |-> EmptyValueAr(Len(fields)), written |-> {}, oob |-> {}])

\* INSERT INTO t (field_ar[0],...) VALUES ($1,...): parameter $k goes to field_ar[k-1]
RowOf(fields, value_ar) ==
  [k \in 1..Len(fields) |-> [name |-> fields[k].name, val |-> value_ar[k]]]

\* the ternary with its branches swapped
ExpectedStatus_Swapped(key) == IF key # "" THEN PGRES_COMMAND_OK ELSE PGRES_TUPLES_OK

\* the status the loop accepts
ExpectedStatus(key) == IF key # "" THEN PGRES_TUPLES_OK ELSE PGRES_COMMAND_OK

\* what the server answers to the prepared INSERT
StoreStatus(key, outcome) ==
  IF outcome # "ok" THEN PGRES_FATAL_ERROR
  ELSE IF key # "" THEN PGRES_TUPLES_OK ELSE PGRES_COMMAND_OK

\* eAdd_value: append a copy of (key, val)
eAdd_value(list, key, val) == Append(list, [key |-> key, val |-> val])

\* a version keeping only the value of the latest record
KeyResult_Latest(res, key, value) == <<[key |-> key, val |-> value]>>

\* if( key ) eAdd_value(res, key, PQgetvalue(dbres, 0, 0))
KeyResult(res, key, value) == eAdd_value(res, key, value)

NoIns ==
  [key |-> "", fields |-> <<>>, n |-> 0, i |-> 0, rec |-> <<>>,
   value_ar |-> <<>>, written |-> {}, oob |-> {}, res |-> <<>>, dbval |-> 0,
   rows |-> <<>>, nprep |-> 0, prep |-> "none"]

Docs == [key : {"", KeyName}, fields : FieldLists, n : 0..MaxRecs]

\* entry of pgsql_INSERT with a document
CallInsert(w, doc) ==
  /\ pc[w] = "idle"
  /\ pc' = [pc EXCEPT ![w] = "ins_prepare"]
  /\ ins' = [ins EXCEPT ![w] =
               [NoIns EXCEPT !.key = doc.key, !.fields = doc.fields, !.n = doc.n]]
  /\ ret' = [ret EXCEPT ![w] = NoRet]
  /\ UNCHANGED <<qvars, tbl, oidbuf, rvars>>

\* a PQprepare whose result is not looked at
Prepare_Unchecked(w, dbres) ==
  /\ pc[w] = "ins_prepare"
  /\ ins' = [ins EXCEPT ![w].nprep = @ + 1, ![w].prep = dbres]
  /\ pc' = [pc EXCEPT ![w] = "ins_loop"]
  /\ UNCHANGED <<qvars, ret, tbl, oidbuf, rvars>>

\* PQprepare (nprep counts the calls of it, prep keeps what it returned) and
\* the check of its result
Prepare(w, dbres) ==
  /\ pc[w] = "ins_prepare"
  /\ ins' = [ins EXCEPT ![w].nprep = @ + 1, ![w].prep = dbres]
  /\ IF dbres # PGRES_COMMAND_OK
       THEN /\ pc' = [pc EXCEPT ![w] = "idle"]
            /\ ret' = [ret EXCEPT ![w] = Ret("insert", 0, FALSE, NoJob, <<>>)]
       ELSE /\ pc' = [pc EXCEPT ![w] = "ins_loop"]
            /\ ret' = ret
  /\ UNCHANGED <<qvars, tbl, oidbuf, rvars>>

\* the next <record>: build value_ar from its <value> nodes.  A write past
\* value_ar is undefined behaviour: the call may go on or the process may die.
NextRecord(w, rec, ub) ==
  /\ pc[w] = "ins_loop"
  /\ ins[w].i < ins[w].n
  /\ LET b == BindRecord(ins[w].fields, rec) IN
     /\ ins' = [ins EXCEPT ![w].i = @ + 1, ![w].rec = rec,
                           ![w].value_ar = b.value_ar,
                           ![w].written = b.written, ![w].oob = b.oob]
     /\ pc' = [pc EXCEPT ![w] =
                 IF b.oob # {} /\ ub = "crash" THEN "crashed" ELSE "ins_exec"]
  /\ UNCHANGED <<qvars, ret, tbl, oidbuf, rvars>>

\* PQexecPrepared, the status check and, with a key, eAdd_value(res, key, PQgetvalue)
Exec(w, outcome, hasoids) ==
  /\ pc[w] = "ins_exec"
  /\ LET status == StoreStatus(ins[w].key, outcome)
         id == Len(tbl) + 1
         row == [cols |-> RowOf(ins[w].fields, ins[w].value_ar),
                 by |-> w, recno |-> ins[w].i, id |-> id]
     IN /\ tbl' = IF outcome = "ok" THEN Append(tbl, row) ELSE tbl
        /\ IF status # ExpectedStatus(ins[w].key)
             THEN /\ pc' = [pc EXCEPT ![w] = "idle"]
                  /\ ret' = [ret EXCEPT ![w] = Ret("insert", 0, TRUE, NoJob, <<>>)]
                  /\ ins' = [ins EXCEPT ![w].res = <<>>]
             ELSE /\ ret' = ret
                  /\ IF ins[w].key # ""
                       THEN /\ pc' = [pc EXCEPT ![w] = "ins_loop"]
                            /\ ins' = [ins EXCEPT
                                 ![w].res = KeyResult(@, ins[w].key, id),
                                 ![w].dbval = id,
                                 ![w].rows = Append(@, id)]
                       ELSE /\ pc' = [pc EXCEPT ![w] = "ins_oid"]
                            /\ ins' = [ins EXCEPT
                                 ![w].dbval = IF hasoids THEN id ELSE 0,
                                 ![w].rows = Append(@, id)]
  /\ UNCHANGED <<qvars, oidbuf, rvars>>

\* snprintf(oid, 30, "%ld%c", PQoidValue(dbres), 0) into the static buffer
OidPrint(w) ==
  /\ pc[w] = "ins_oid"
  /\ oidbuf' = ins[w].dbval
  /\ pc' = [pc EXCEPT ![w] = "ins_oidadd"]
  /\ UNCHANGED <<qvars, ret, ins, tbl, rvars>>

\* eAdd_value(res, "oid", oid) reading the static buffer
OidAdd(w) ==
  /\ pc[w] = "ins_oidadd"
  /\ ins' = [ins EXCEPT ![w].res = eAdd_value(@, "oid", oidbuf)]
  /\ pc' = [pc EXCEPT ![w] = "ins_loop"]
  /\ UNCHANGED <<qvars, ret, tbl, oidbuf, rvars>>

\* no <record> left: exit and return res
Finish(w) ==
  /\ pc[w] = "ins_loop"
  /\ ins[w].i = ins[w].n
  /\ pc' = [pc EXCEPT ![w] = "idle"]
  /\ ret' = [ret EXCEPT ![w] = Ret("insert", 1, TRUE, NoJob, ins[w].res)]
  /\ UNCHANGED <<qvars, ivars, rvars>>

\* ------------------------------------------------- the db_register_* calls
\* What the functions take from the report (parseToSQLdata, sqldataGetValue
\* and sqldataGetHostInfo build the documents): the sysid hash, the hostname
\* and the IP address.
Sysids == {<<"sysid", k>> : k \in 1..NumSysids}
HostPairs ==
  {[hostname |-> <<"host", h>>, ipaddr |-> <<"ip", a>>] :
     h \in 1..NumHosts, a \in 1..NumHosts}
NoHost == [hostname |-> <<"host", 0>>, ipaddr |-> <<"ip", 0>>]

\* eCount: the number of entries of a result list
eCount(list) == Len(list)

\* what a pgsql_INSERT call of a db_register_* function gave: whether it was
\* made, whether it returned a list, the list's eCount and its first value
NotTried == [tried |-> FALSE, ok |-> FALSE, n |-> 0, val |-> 0]
Tried(r) ==
  [tried |-> TRUE, ok |-> r.ok, n |-> eCount(r.list),
   val |-> IF r.list = <<>> THEN 0 ELSE r.list[1].val]

NoReg ==
  [fn |-> "none", sysid |-> <<"sysid", 0>>, host |-> NoHost, syskey |-> 0 - 1,
   rterid |-> 0 - 1, ntuples |-> 0 - 1, systems0 |-> <<>>, hosts0 |-> <<>>,
   first |-> NotTried, mid |-> <<>>]

\* pgsql_INSERT as the db_register_* functions call it, on one connection
\* with no other statement in between: recs are the rows of the document's
\* records, prep the result of PQprepare, outs the outcome of each execution,
\* nextid the key the table's sequence hands out next.  Gives whether a list
\* was returned, the list, and the table afterwards.
RECURSIVE InsertRecords(_, _, _, _, _, _)
InsertRecords(key, recs, outs, table, nextid, res) ==
  IF recs = <<>> THEN [ok |-> TRUE, list |-> res, table |-> table]
  ELSE LET status == StoreStatus(key, Head(outs))
           written == IF Head(outs) = "ok"
                        THEN Append(table, [Head(recs) EXCEPT !.key = nextid])
                        ELSE table
       IN IF status # ExpectedStatus(key)
            THEN [ok |-> FALSE, list |-> <<>>, table |-> written]
            ELSE InsertRecords(key, Tail(recs), Tail(outs), written, nextid + 1,
                   IF key # "" THEN KeyResult(res, key, nextid)
                   ELSE eAdd_value(res, "oid", nextid))

pgsql_INSERT(key, recs, prep, outs, table, nextid) ==
  IF prep # PGRES_COMMAND_OK THEN [ok |-> FALSE, list |-> <<>>, table |-> table]
  ELSE InsertRecords(key, recs, outs, table, nextid, <<>>)

Outcomes(n) == [1..n -> {"ok", "error"}]

\* ------------------------------------------------------ db_register_system
SystemRow(sysid) == [key |-> 0, sysid |-> sysid]
HostRow(syskey, host) ==
  [key |-> 0, syskey |-> syskey, hostname |-> host.hostname, ipaddr |-> host.ipaddr]

\* a lookup that finds nothing
SelectSyskeys_None(table, sysid) == {}

\* a lookup with LIMIT 1
SelectSyskeys_First(table, sysid) ==
  LET all == {r \in 1..Len(table) : table[r].sysid = sysid} IN
  IF all = {} THEN {} ELSE {CHOOSE r \in all : \A q \in all : r <= q}

\* SELECT syskey FROM systems WHERE sysid = '<sysid>': the matching rows
SelectSyskeys(table, sysid) == {r \in 1..Len(table) : table[r].sysid = sysid}

\* SELECT syskey FROM systems_hostname WHERE hostname='<h>' AND ipaddr='<a>'
SelectHostname(table, host) ==
  {r \in 1..Len(table) :
     table[r].hostname = host.hostname /\ table[r].ipaddr = host.ipaddr}

\* the record of a db_register_system call that returns code
SystemCall(w, code, sys1, hosts1) ==
  [fn |-> "db_register_system", by |-> w, sysid |-> reg[w].sysid,
   host |-> reg[w].host, code |-> code, ntuples |-> reg[w].ntuples,
   systems0 |-> reg[w].systems0, hosts0 |-> reg[w].hosts0,
   systems1 |-> sys1, hosts1 |-> hosts1]

\* goto exit / return syskey
SystemReturn(w, code, ntuples, sys1, hosts1) ==
  /\ pc' = [pc EXCEPT ![w] = "idle"]
  /\ ret' = [ret EXCEPT ![w] = Ret("db_register_system", code, TRUE, NoJob, <<>>)]
  /\ reg' = [reg EXCEPT ![w].syskey = code, ![w].ntuples = ntuples]
  /\ calls' = Append(calls, [SystemCall(w, code, sys1, hosts1) EXCEPT !.ntuples = ntuples])

\* entry: parseToSQLdata of the systems document and sqldataGetValue of sysid
CallRegisterSystem(w, sysid, host, parse) ==
  /\ pc[w] = "idle"
  /\ Len(calls) < MaxCalls
  /\ IF parse # "ok"
       THEN /\ pc' = pc
            /\ ret' = [ret EXCEPT ![w] =
                         Ret("db_register_system", 0 - 1, FALSE, NoJob, <<>>)]
            /\ reg' = [reg EXCEPT ![w] =
                         [NoReg EXCEPT !.fn = "db_register_system", !.sysid = sysid,
                            !.host = host, !.systems0 = systems,
                            !.hosts0 = systems_hostname]]
            /\ calls' = Append(calls,
                  [fn |-> "db_register_system", by |-> w, sysid |-> sysid,
                   host |-> host, code |-> 0 - 1, ntuples |-> 0 - 1,
                   systems0 |-> systems, hosts0 |-> systems_hostname,
                   systems1 |-> systems, hosts1 |-> systems_hostname])
       ELSE /\ pc' = [pc EXCEPT ![w] = "rs_select"]
            /\ ret' = [ret EXCEPT ![w] = NoRet]
            /\ reg' = [reg EXCEPT ![w] =
                         [NoReg EXCEPT !.fn = "db_register_system", !.sysid = sysid,
                            !.host = host, !.systems0 = systems,
                            !.hosts0 = systems_hostname]]
            /\ calls' = calls
  /\ UNCHANGED <<qvars, ivars, tvars>>

\* the SELECT by sysid and the branch on PQntuples
RsSelect(w, dbres, hostok) ==
  /\ pc[w] = "rs_select"
  /\ IF dbres # PGRES_TUPLES_OK
       THEN SystemReturn(w, 0 - 1, 0 - 1, systems, systems_hostname)
       ELSE LET rows == SelectSyskeys(systems, reg[w].sysid)
                n == Cardinality(rows)
            IN IF n = 0
                 THEN /\ pc' = [pc EXCEPT ![w] = "rs_inssys"]
                      /\ reg' = [reg EXCEPT ![w].ntuples = n]
                      /\ UNCHANGED <<ret, calls>>
               ELSE IF n = 1
                 THEN LET r == CHOOSE x \in rows : TRUE IN
                      IF ~hostok
                        THEN SystemReturn(w, 0 - 1, n, systems, systems_hostname)
                        ELSE /\ pc' = [pc EXCEPT ![w] = "rs_hostsel"]
                             /\ reg' = [reg EXCEPT ![w].ntuples = n,
                                                    ![w].syskey = systems[r].key]
                             /\ UNCHANGED <<ret, calls>>
               ELSE SystemReturn(w, 0 - 1, n, systems, systems_hostname)
  /\ UNCHANGED <<qvars, ivars, tvars>>

\* no row found: pgsql_INSERT of the systems document, the check of the one
\* result, sqldataGetHostInfo
RsInsertSystem(w, nrec, prep, outs, hostok) ==
  /\ pc[w] = "rs_inssys"
  /\ LET r == pgsql_INSERT(KeyName, [k \in 1..nrec |-> SystemRow(reg[w].sysid)],
                           prep, outs, systems, Len(systems) + 1)
     IN /\ systems' = r.table
        /\ IF ~r.ok \/ eCount(r.list) # 1 \/ ~hostok
             THEN SystemReturn(w, 0 - 1, reg[w].ntuples, r.table, systems_hostname)
             ELSE /\ pc' = [pc EXCEPT ![w] = "rs_inshost"]
                  /\ reg' = [reg EXCEPT ![w].syskey = r.list[1].val]
                  /\ UNCHANGED <<ret, calls>>
  /\ UNCHANGED <<qvars, ivars, systems_hostname, rtevalruns, rtevalruns_details,
                 cyclic_statistics, cyclic_rawdata>>

\* the SELECT by hostname and ipaddr; a row found returns the syskey
RsHostSelect(w, dbres) ==
  /\ pc[w] = "rs_hostsel"
  /\ IF dbres # PGRES_TUPLES_OK
       THEN SystemReturn(w, 0 - 1, reg[w].ntuples, systems, systems_hostname)
       ELSE IF Cardinality(SelectHostname(systems_hostname, reg[w].host)) = 0
         THEN /\ pc' = [pc EXCEPT ![w] = "rs_inshost"]
              /\ UNCHANGED <<ret, reg, calls>>
         ELSE SystemReturn(w, reg[w].syskey, reg[w].ntuples, systems, systems_hostname)
  /\ UNCHANGED <<qvars, ivars, tvars>>

\* pgsql_INSERT of the host document; syskey = (dbdata ? syskey : -1)
RsInsertHost(w, prep, out) ==
  /\ pc[w] = "rs_inshost"
  /\ LET r == pgsql_INSERT("", <<HostRow(reg[w].syskey, reg[w].host)>>, prep,
                           <<out>>, systems_hostname, Len(systems_hostname) + 1)
     IN /\ systems_hostname' = r.table
        /\ SystemReturn(w, IF r.ok THEN reg[w].syskey ELSE 0 - 1, reg[w].ntuples,
                        systems, r.table)
  /\ UNCHANGED <<qvars, ivars, systems, rtevalruns, rtevalruns_details,
                 cyclic_statistics, cyclic_rawdata>>

\* --------------------------------------------------- db_register_rtevalrun
RunRow(syskey) == [key |-> 0, syskey |-> syskey]
DetailsRow(rterid) == [key |-> 0, rterid |-> rterid]
RunKey == "rterid"

\* a check that lets every value pass
RunIdValid_Any(rterid) == TRUE

\* if( rterid < 1 ) ... rterid = -1
RunIdValid(rterid) == rterid >= 1

\* the record of a returned call with two pgsql_INSERT calls: t1 is the table
\* of the first, t2 the table of the second
ReportCall(w, fn, code, first, second, t1mid, t1, t2before, t2) ==
  [fn |-> fn, by |-> w, code |-> code, first |-> first, second |-> second,
   t1mid |-> t1mid, t1after |-> t1, t2before |-> t2before, t2after |-> t2]

ReportReturn(w, fn, code, first, second, t1mid, t1, t2before, t2) ==
  /\ pc' = [pc EXCEPT ![w] = "idle"]
  /\ ret' = [ret EXCEPT ![w] = Ret(fn, code, TRUE, NoJob, <<>>)]
  /\ reg' = [reg EXCEPT ![w].first = first]
  /\ calls' = Append(calls,
       ReportCall(w, fn, code, first, second, t1mid, t1, t2before, t2))

\* entry: parseToSQLdata of the rtevalruns document
CallRegisterRun(w, syskey, parseok) ==
  /\ pc[w] = "idle"
  /\ Len(calls) < MaxCalls
  /\ IF ~parseok
       THEN /\ ReportReturn(w, "db_register_rtevalrun", 0 - 1, NotTried, NotTried,
                            rtevalruns, rtevalruns, rtevalruns_details,
                            rtevalruns_details)
       ELSE /\ pc' = [pc EXCEPT ![w] = "rr_insrun"]
            /\ ret' = [ret EXCEPT ![w] = NoRet]
            /\ reg' = [reg EXCEPT ![w] =
                         [NoReg EXCEPT !.fn = "db_register_rtevalrun",
                                       !.syskey = syskey]]
            /\ calls' = calls
  /\ UNCHANGED <<qvars, ivars, tvars>>

\* pgsql_INSERT of the rtevalruns document, the checks of the result and
\* parseToSQLdata of the rtevalruns_details document
RrInsertRun(w, nrec, prep, outs, nextid, parseok) ==
  /\ pc[w] = "rr_insrun"
  /\ LET fn == "db_register_rtevalrun"
         r == pgsql_INSERT(RunKey, [k \in 1..nrec |-> RunRow(reg[w].syskey)],
                           prep, outs, rtevalruns, nextid)
         first == Tried(r)
     IN /\ rtevalruns' = r.table
        /\ IF \/ ~r.ok
              \/ eCount(r.list) # 1
              \/ ~RunIdValid(r.list[1].val)
              \/ ~parseok
             THEN ReportReturn(w, fn, 0 - 1, first, NotTried, r.table, r.table,
                               rtevalruns_details, rtevalruns_details)
             ELSE /\ pc' = [pc EXCEPT ![w] = "rr_insdet"]
                  /\ reg' = [reg EXCEPT ![w].rterid = r.list[1].val,
                                         ![w].first = first, ![w].mid = r.table]
                  /\ UNCHANGED <<ret, calls>>
  /\ UNCHANGED <<qvars, ivars, systems, systems_hostname, rtevalruns_details,
                 cyclic_statistics, cyclic_rawdata>>

\* pgsql_INSERT of the rtevalruns_details document and the check of its count
RrInsertDetails(w, nrec, prep, outs) ==
  /\ pc[w] = "rr_insdet"
  /\ LET fn == "db_register_rtevalrun"
         r == pgsql_INSERT("", [k \in 1..nrec |-> DetailsRow(reg[w].rterid)],
                           prep, outs, rtevalruns_details,
                           Len(rtevalruns_details) + 1)
     IN /\ rtevalruns_details' = r.table
        /\ ReportReturn(w, fn,
             IF ~r.ok \/ eCount(r.list) # 1 THEN 0 - 1 ELSE reg[w].rterid,
             reg[w].first, Tried(r), reg[w].mid, rtevalruns,
             rtevalruns_details, r.table)
  /\ UNCHANGED <<qvars, ivars, systems, systems_hostname, rtevalruns,
                 cyclic_statistics, cyclic_rawdata>>

\* -------------------------------------------------- db_register_cyclictest
StatRow(rterid) == [key |-> 0, rterid |-> rterid]

\* a check that lets the empty list pass
EnoughRecords_Any(list) == TRUE

\* if( eCount(dbdata) < 1 ) ... result = -1
EnoughRecords(list) == eCount(list) >= 1

\* entry: parseToSQLdata of the cyclic_statistics document
CallRegisterCyclic(w, rterid, parseok) ==
  /\ pc[w] = "idle"
  /\ Len(calls) < MaxCalls
  /\ IF ~parseok
       THEN /\ ReportReturn(w, "db_register_cyclictest", 0 - 1, NotTried, NotTried,
                            cyclic_statistics, cyclic_statistics, cyclic_rawdata,
                            cyclic_rawdata)
       ELSE /\ pc' = [pc EXCEPT ![w] = "rc_insstat"]
            /\ ret' = [ret EXCEPT ![w] = NoRet]
            /\ reg' = [reg EXCEPT ![w] =
                         [NoReg EXCEPT !.fn = "db_register_cyclictest",
                                       !.rterid = rterid]]
            /\ calls' = calls
  /\ UNCHANGED <<qvars, ivars, tvars>>

\* pgsql_INSERT of the cyclic_statistics document, the check of its count and
\* parseToSQLdata of the cyclic_rawdata document
RcInsertStats(w, nrec, prep, outs, parseok) ==
  /\ pc[w] = "rc_insstat"
  /\ LET fn == "db_register_cyclictest"
         r == pgsql_INSERT("", [k \in 1..nrec |-> StatRow(reg[w].rterid)],
                           prep, outs, cyclic_statistics,
                           Len(cyclic_statistics) + 1)
         first == Tried(r)
     IN /\ cyclic_statistics' = r.table
        /\ IF ~r.ok \/ ~EnoughRecords(r.list) \/ ~parseok
             THEN ReportReturn(w, fn, 0 - 1, first, NotTried, r.table, r.table,
                               cyclic_rawdata, cyclic_rawdata)
             ELSE /\ pc' = [pc EXCEPT ![w] = "rc_insraw"]
                  /\ reg' = [reg EXCEPT ![w].first = first, ![w].mid = r.table]
                  /\ UNCHANGED <<ret, calls>>
  /\ UNCHANGED <<qvars, ivars, systems, systems_hostname, rtevalruns,
                 rtevalruns_details, cyclic_rawdata>>

\* pgsql_INSERT of the cyclic_rawdata document and the check of its count
RcInsertRaw(w, nrec, prep, outs) ==
  /\ pc[w] = "rc_insraw"
  /\ LET fn == "db_register_cyclictest"
         r == pgsql_INSERT("", [k \in 1..nrec |-> StatRow(reg[w].rterid)],
                           prep, outs, cyclic_rawdata, Len(cyclic_rawdata) + 1)
     IN /\ cyclic_rawdata' = r.table
        /\ ReportReturn(w, fn,
             IF ~r.ok \/ ~EnoughRecords(r.list) THEN 0 - 1 ELSE 1,
             reg[w].first, Tried(r), reg[w].mid, cyclic_statistics,
             cyclic_rawdata, r.table)
  /\ UNCHANGED <<qvars, ivars, systems, systems_hostname, rtevalruns,
                 rtevalruns_details, cyclic_statistics>>

\* ------------------------------------------------------------ the queue
Row(st, ps, pe, j) ==
  [status |-> st, filename |-> Filename(j), parsestart |-> ps, parseend |-> pe]
NewRow(j) == Row(STAT_NEW, NULL, NULL, j)

InitWorkers ==
  /\ queue0 = queue
  /\ mtx = 0
  /\ pc = [w \in Workers |-> "idle"]
  /\ job = [w \in Workers |-> NoJob]
  /\ arg = [w \in Workers |-> NoArg]
  /\ ret = [w \in Workers |-> NoRet]
  /\ delivered = [j \in Jobs |-> 0]
  /\ ins = [w \in Workers |-> NoIns]
  /\ oidbuf = 0
  /\ reg = [w \in Workers |-> NoReg]
  /\ calls = <<>>

\* the registration tables with no row
EmptyStore ==
  /\ systems = <<>>
  /\ systems_hostname = <<>>
  /\ rtevalruns = <<>>
  /\ rtevalruns_details = <<>>
  /\ cyclic_statistics = <<>>
  /\ cyclic_rawdata = <<>>

\* --------------------------------------------------------- specifications
\* the ids a caller may pass: the jobs of the queue and one id no row has
SubmIds == 1..(NumJobs + 1)

\* the rows the program can bring a job to: new as created, or any other
\* status with any timestamps
ReachableRows(j) ==
  {NewRow(j)} \cup
  {Row(st, ps, pe, j) : st \in ValidTargets, ps \in {NULL} \cup Times,
                        pe \in {NULL} \cup Times}

Init ==
  /\ queue = [j \in Jobs |-> NewRow(j)]
  /\ InitWorkers
  /\ tbl = <<>>
  /\ EmptyStore

\* Spec: one db_update_submissionqueue call, with every argument, on a queue
\* where one job is in any state and the others are new
InitUpdate ==
  /\ \E j0 \in Jobs : \E row \in ReachableRows(j0) :
       queue = [j \in Jobs |-> IF j = j0 THEN row ELSE NewRow(j)]
  /\ InitWorkers
  /\ tbl = <<>>
  /\ EmptyStore

NextUpdate ==
  \/ \E id \in SubmIds, st \in AllStatusArgs :
       ret[FirstWorker].op = "none" /\ CallUpdate(FirstWorker, id, st)
  \/ \E now \in Times, r \in UpdateOutcomes : DoUpdate(FirstWorker, now, r)

Spec == InitUpdate /\ [][NextUpdate]_vars

\* SpecQueue: the worker threads checking jobs out while callers set statuses
\* (all statements of a run carry the same NOW())
QueueTargets == {STAT_NEW, STAT_ASSIGNED, STAT_SUCCESS}

NextQueue ==
  \E w \in Workers :
    \/ \E m \in BOOLEAN : CallCheckout(w, m)
    \/ Lock(w)
    \/ \E r \in SelectOutcomes : Select(w, r)
    \/ \E r \in UpdateOutcomes : Mark(w, MaxTime, r)
    \/ Unlock(w)
    \/ \E id \in Jobs, st \in QueueTargets : CallUpdate(w, id, st)
    \/ \E r \in UpdateOutcomes : DoUpdate(w, MaxTime, r)

SpecQueue == Init /\ [][NextQueue]_vars

\* SpecCheckout: the worker threads calling db_get_submissionqueue_job again
\* and again, every call of malloc and of the database failing or not
NextCheckout ==
  \E w \in Workers :
    \/ \E m \in BOOLEAN : CallCheckout(w, m)
    \/ Lock(w)
    \/ \E r \in SelectOutcomes : Select(w, r)
    \/ \E now \in Times, r \in UpdateOutcomes : Mark(w, now, r)
    \/ Unlock(w)

SpecCheckout == Init /\ [][NextCheckout]_vars

\* SpecMark: the same calls where only the UPDATE to STAT_ASSIGNED may fail
NextMark ==
  \E w \in Workers :
    \/ CallCheckout(w, TRUE)
    \/ Lock(w)
    \/ Select(w, PGRES_TUPLES_OK)
    \/ \E now \in Times, r \in UpdateOutcomes : Mark(w, now, r)
    \/ Unlock(w)

SpecMark == Init /\ [][NextMark]_vars

\* SpecLive: SpecCheckout where a worker inside the function goes on (every
\* database call returns) and a worker waiting for the mutex gets it at some
\* time if it is free again and again
AfterLock(w) ==
  \/ \E r \in SelectOutcomes : Select(w, r)
  \/ \E now \in Times, r \in UpdateOutcomes : Mark(w, now, r)
  \/ Unlock(w)

Fairness == \A w \in Workers : WF_vars(AfterLock(w)) /\ SF_vars(Lock(w))

SpecLive == Init /\ [][NextCheckout]_vars /\ Fairness

\* SpecOrder: the calls of SpecCheckout against a queue where each job is new
\* or was taken before
InitOrder ==
  /\ \E sts \in [Jobs -> {STAT_NEW, STAT_ASSIGNED, STAT_SUCCESS}] :
       queue = [j \in Jobs |->
                  IF sts[j] = STAT_NEW THEN NewRow(j) ELSE Row(sts[j], NULL, NULL, j)]
  /\ InitWorkers
  /\ tbl = <<>>
  /\ EmptyStore

SpecOrder == InitOrder /\ [][NextCheckout]_vars

\* SpecOnce: every worker calls db_get_submissionqueue_job once, against a
\* queue holding exactly one new job, and no call of the database fails
InitOnce ==
  /\ \E n \in Jobs :
       \E sts \in [Jobs -> KnownStatuses \ {STAT_NEW}] :
         queue = [j \in Jobs |->
                    IF j = n THEN NewRow(j) ELSE Row(sts[j], NULL, NULL, j)]
  /\ InitWorkers
  /\ tbl = <<>>
  /\ EmptyStore

NextOnce ==
  \E w \in Workers :
    \/ ret[w].op = "none" /\ CallCheckout(w, TRUE)
    \/ Lock(w)
    \/ Select(w, PGRES_TUPLES_OK)
    \/ \E now \in Times : Mark(w, now, PGRES_COMMAND_OK)
    \/ Unlock(w)

SpecOnce == InitOnce /\ [][NextOnce]_vars

\* SpecInsert: one pgsql_INSERT call of 0..MaxRecs records, each listing one
\* value per field in the declared order
OldRow == [cols |-> <<>>, by |-> 0, recno |-> 0, id |-> 1]
PrepareOutcomes == {PGRES_COMMAND_OK, PGRES_FATAL_ERROR}

InitInsert ==
  /\ queue = [j \in Jobs |-> NewRow(j)]
  /\ InitWorkers
  /\ tbl \in {<<>>, <<OldRow>>}
  /\ EmptyStore

NextInsert ==
  LET w == FirstWorker IN
    \/ \E doc \in Docs : ret[w].op = "none" /\ CallInsert(w, doc)
    \/ \E r \in PrepareOutcomes : Prepare(w, r)
    \/ \E ub \in {"continue", "crash"} :
         NextRecord(w, DeclaredOrderRecord(ins[w].fields), ub)
    \/ \E o \in {"ok", "error"}, h \in BOOLEAN : Exec(w, o, h)
    \/ OidPrint(w)
    \/ OidAdd(w)
    \/ Finish(w)

SpecInsert == InitInsert /\ [][NextInsert]_vars

\* SpecBind: one pgsql_INSERT call of one record, the record being any
\* sequence of <value> nodes
NextBind ==
  LET w == FirstWorker IN
    \/ \E doc \in {d \in Docs : d.n = 1} : ret[w].op = "none" /\ CallInsert(w, doc)
    \/ \E r \in PrepareOutcomes : Prepare(w, r)
    \/ \E rec \in AllRecords(ins[w].fields), ub \in {"continue", "crash"} :
         NextRecord(w, rec, ub)
    \/ \E o \in {"ok", "error"}, h \in BOOLEAN : Exec(w, o, h)
    \/ OidPrint(w)
    \/ OidAdd(w)
    \/ Finish(w)

SpecBind == InitInsert /\ [][NextBind]_vars

\* SpecSystem: up to MaxCalls db_register_system calls, one after the other on
\* one connection, from a store of any rows
InitialSystems ==
  {[k \in 1..Len(q) |-> [key |-> k, sysid |-> q[k]]] : q \in SeqsUpTo(Sysids, NumSysids)}
InitialHosts(sys) ==
  {<<>>} \cup
  {<<[HostRow(sys[r].key, h) EXCEPT !.key = 1]>> : r \in 1..Len(sys), h \in HostPairs}

InitSystem ==
  /\ queue = [j \in Jobs |-> NewRow(j)]
  /\ InitWorkers
  /\ tbl = <<>>
  /\ systems \in InitialSystems
  /\ systems_hostname \in InitialHosts(systems)
  /\ rtevalruns = <<>>
  /\ rtevalruns_details = <<>>
  /\ cyclic_statistics = <<>>
  /\ cyclic_rawdata = <<>>

SysinfoRecords == 0..2

NextSystem ==
  LET w == FirstWorker IN
    \/ \E sysid \in Sysids, host \in HostPairs, parse \in {"ok", "noparse", "nosysid"} :
         CallRegisterSystem(w, sysid, host, parse)
    \/ \E r \in SelectOutcomes, hostok \in BOOLEAN : RsSelect(w, r, hostok)
    \/ \E n \in SysinfoRecords, p \in PrepareOutcomes, hostok \in BOOLEAN :
         \E outs \in Outcomes(n) : RsInsertSystem(w, n, p, outs, hostok)
    \/ \E r \in SelectOutcomes : RsHostSelect(w, r)
    \/ \E p \in PrepareOutcomes, o \in {"ok", "error"} : RsInsertHost(w, p, o)

SpecSystem == InitSystem /\ [][NextSystem]_vars

\* SpecRun: db_register_rtevalrun calls on one connection, for a registered
\* system; the documents hold 0, 1 or 2 records, and the sequence behind
\* rterid stands at the next row number or at 0
ReportRecords == 0..2
Syskeys == 1..NumSysids
OldRun == [RunRow(1) EXCEPT !.key = 1]

InitRun ==
  /\ queue = [j \in Jobs |-> NewRow(j)]
  /\ InitWorkers
  /\ tbl = <<>>
  /\ systems = [k \in Syskeys |-> [key |-> k, sysid |-> <<"sysid", k>>]]
  /\ systems_hostname = <<>>
  /\ rtevalruns \in {<<>>, <<OldRun>>}
  /\ rtevalruns_details = <<>>
  /\ cyclic_statistics = <<>>
  /\ cyclic_rawdata = <<>>

NextRun ==
  LET w == FirstWorker IN
    \/ \E k \in Syskeys, parseok \in BOOLEAN : CallRegisterRun(w, k, parseok)
    \/ \E n \in ReportRecords, p \in PrepareOutcomes, parseok \in BOOLEAN,
          id \in {0, Len(rtevalruns) + 1} :
         \E outs \in Outcomes(n) : RrInsertRun(w, n, p, outs, id, parseok)
    \/ \E n \in ReportRecords, p \in PrepareOutcomes :
         \E outs \in Outcomes(n) : RrInsertDetails(w, n, p, outs)

SpecRun == InitRun /\ [][NextRun]_vars

\* SpecCyclic: db_register_cyclictest calls on one connection, for a
\* registered run
Rterids == 1..NumSysids

NextCyclic ==
  LET w == FirstWorker IN
    \/ \E k \in Rterids, parseok \in BOOLEAN : CallRegisterCyclic(w, k, parseok)
    \/ \E n \in ReportRecords, p \in PrepareOutcomes, parseok \in BOOLEAN :
         \E outs \in Outcomes(n) : RcInsertStats(w, n, p, outs, parseok)
    \/ \E n \in ReportRecords, p \in PrepareOutcomes :
         \E outs \in Outcomes(n) : RcInsertRaw(w, n, p, outs)

SpecCyclic == InitRun /\ [][NextCyclic]_vars

\* SpecRace: every worker thread calls db_register_system once, each on its
\* own connection and with no mutex; the systems table starts with at most
\* one row per sysid, every document holds one record and no call of the
\* database fails
InitRace ==
  /\ queue = [j \in Jobs |-> NewRow(j)]
  /\ InitWorkers
  /\ tbl = <<>>
  /\ systems \in {t \in InitialSystems :
                    \A a, b \in 1..Len(t) : t[a].sysid = t[b].sysid => a = b}
  /\ systems_hostname \in InitialHosts(systems)
  /\ rtevalruns = <<>>
  /\ rtevalruns_details = <<>>
  /\ cyclic_statistics = <<>>
  /\ cyclic_rawdata = <<>>

NextRace ==
  \E w \in Workers :
    \/ \E sysid \in Sysids, host \in HostPairs :
         ret[w].op = "none" /\ CallRegisterSystem(w, sysid, host, "ok")
    \/ RsSelect(w, PGRES_TUPLES_OK, TRUE)
    \/ RsInsertSystem(w, 1, PGRES_COMMAND_OK, <<"ok">>, TRUE)
    \/ RsHostSelect(w, PGRES_TUPLES_OK)
    \/ RsInsertHost(w, PGRES_COMMAND_OK, "ok")

SpecRace == InitRace /\ [][NextRace]_vars

\* SpecThreads: the worker threads each inserting a keyless document of one
\* record
ThreadDocs ==
  {d \in Docs : d.key = "" /\ d.n = 1 /\ Len(d.fields) = 1 /\ d.fields[1].fid = 0}

NextThreads ==
  \E w \in Workers :
    \/ \E doc \in ThreadDocs : ret[w].op = "none" /\ CallInsert(w, doc)
    \/ Prepare(w, PGRES_COMMAND_OK)
    \/ \E rec \in WellFormedRecords(ins[w].fields) : NextRecord(w, rec, "continue")
    \/ \E h \in BOOLEAN : Exec(w, "ok", h)
    \/ OidPrint(w)
    \/ OidAdd(w)
    \/ Finish(w)

SpecThreads == InitInsert /\ [][NextThreads]_vars
\* ------------------------------------------------------------------ claims
AllReturned == \A w \in Workers : pc[w] = "idle" /\ ret[w].op = "checkout"
NewAtStart == {j \in Jobs : queue0[j].status = STAT_NEW}
GotJob(w, j) ==
  /\ ret[w].code = 1
  /\ ret[w].job = [status |-> "jbAVAIL", submid |-> j, filename |-> Filename(j)]
GotNoJob(w) == ret[w].code = 1 /\ ret[w].job.status = "jbNONE"

\* C1: when every one of the W >= 2 workers has returned from its checkout of
\* a queue that held exactly one new job (no database call failing), exactly
\* one worker holds that job (jbAVAIL, its submid and filename), every other
\* worker holds the "no job" result, and the job's status is STAT_ASSIGNED.
C1_OneWinner ==
  AllReturned =>
    \A n \in NewAtStart :
      /\ \E w \in Workers :
           /\ GotJob(w, n)
           /\ \A v \in Workers \ {w} : GotNoJob(v)
      /\ queue[n].status = STAT_ASSIGNED

C1_Witness ==
  /\ AllReturned
  /\ NumWorkers >= 2
  /\ Cardinality(NewAtStart) = 1
  /\ \E w \in Workers : ret[w].job.status = "jbAVAIL"
  /\ \E w \in Workers : ret[w].job.status = "jbNONE"

\* C2: at-most-once delivery.  In every step: a job that is not new does not
\* become new; a checkout's SELECT takes only a job that is new; and a job is
\* returned by db_get_submissionqueue_job at most once over the whole run.
C2_AtMostOnce ==
  [][/\ \A j \in Jobs :
          /\ queue[j].status # STAT_NEW => queue'[j].status # STAT_NEW
          /\ delivered'[j] <= 1
     /\ \A w \in Workers :
          (pc[w] = "select" /\ pc'[w] = "mark")
            => queue[job'[w].submid].status = STAT_NEW]_vars

C2_Witness ==
  \E j \in Jobs :
    /\ delivered[j] = 1
    /\ queue[j].status = STAT_ASSIGNED
    /\ \A k \in Jobs : queue[k].status # STAT_NEW
    /\ \E w \in Workers : ret[w].op = "checkout" /\ GotNoJob(w)
    /\ \E w \in Workers : ret[w].op = "update" /\ ret[w].code = 1

UpdateReturns(w) == pc[w] = "update" /\ pc'[w] = "idle"

\* C3: a db_update_submissionqueue call whose status is STAT_NEW, or no known
\* status at all, returns 0 whatever the submid and the job's current status,
\* sends no statement, and leaves the whole submissionqueue table as it was.
C3_InvalidStatus ==
  [][\A w \in Workers :
       (UpdateReturns(w) /\ arg[w].status \notin ValidTargets)
         => /\ ret'[w].code = 0
            /\ ~ret'[w].sent
            /\ queue' = queue]_vars

C3_Witness ==
  \E w \in Workers :
    /\ ret[w].op = "update" /\ ret[w].code = 0
    /\ arg[w].status = STAT_NEW
    /\ arg[w].submid \in Jobs
    /\ queue[arg[w].submid].status \in TerminalStatuses

\* C4: a db_update_submissionqueue call that returns 1 changes no row but the
\* one of its submid; there it writes the status and, for STAT_ASSIGNED, no
\* timestamp; for STAT_INPROG, parsestart only; for each of the seven
\* terminal statuses, parseend only.
C4_Frame ==
  [][\A w \in Workers :
       (UpdateReturns(w) /\ ret'[w].code = 1)
         => LET id == arg[w].submid
                t == arg[w].status
            IN /\ \A j \in Jobs \ {id} : queue'[j] = queue[j]
               /\ id \in Jobs =>
                    /\ queue'[id].status = t
                    /\ queue'[id].filename = queue[id].filename
                    /\ t = STAT_ASSIGNED =>
                         /\ queue'[id].parsestart = queue[id].parsestart
                         /\ queue'[id].parseend = queue[id].parseend
                    /\ t = STAT_INPROG =>
                         /\ queue'[id].parsestart \in Times
                         /\ queue'[id].parseend = queue[id].parseend
                    /\ t \in TerminalStatuses =>
                         /\ queue'[id].parseend \in Times
                         /\ queue'[id].parsestart = queue[id].parsestart]_vars

C4_Witness ==
  \E w \in Workers :
    /\ ret[w].op = "update" /\ ret[w].code = 1
    /\ arg[w].status = STAT_INPROG
    /\ arg[w].submid \in Jobs
    /\ queue[arg[w].submid].parsestart \in Times
    /\ queue[arg[w].submid].parseend = NULL
    /\ \E j \in Jobs \ {arg[w].submid} :
         queue[j].status \in TerminalStatuses /\ queue[j].parsestart = NULL

Rank(st) ==
  CASE st = STAT_NEW -> 0
    [] st = STAT_ASSIGNED -> 1
    [] st = STAT_INPROG -> 2
    [] OTHER -> 3

\* C5 as claimed: statuses only move forward along new, assigned, in
\* progress, terminal, and a job in a terminal status keeps that status.
C5_StrictlyForward ==
  [][\A j \in Jobs :
       /\ Rank(queue'[j].status) >= Rank(queue[j].status)
       /\ queue[j].status \in TerminalStatuses
            => queue'[j].status = queue[j].status]_vars

\* C5 as amended: no status change leads into STAT_NEW; every status change
\* is either a checkout marking the job it read as STAT_ASSIGNED, or a
\* db_update_submissionqueue call with a known status other than STAT_NEW
\* that returns 1; and such a call with a working database takes effect
\* whatever the job's current status (the function does not read it).
C5_OnlyNewIsBarred ==
  [][/\ \A j \in Jobs :
          queue'[j].status # queue[j].status =>
            /\ queue'[j].status \in ValidTargets
            /\ \E w \in Workers :
                 \/ /\ pc[w] = "mark" /\ job[w].submid = j
                    /\ queue'[j].status = STAT_ASSIGNED
                 \/ /\ UpdateReturns(w) /\ ret'[w].code = 1
                    /\ arg[w].submid = j
                    /\ arg[w].status = queue'[j].status
     /\ \A w \in Workers :
          (/\ UpdateReturns(w) /\ ret'[w].code = 1
           /\ arg[w].status \in ValidTargets /\ arg[w].submid \in Jobs)
            => queue'[arg[w].submid].status = arg[w].status]_vars

\* a job that had reached a terminal status (its parseend is set) is
\* assigned again
C5_Witness ==
  \E j \in Jobs :
    /\ queue[j].status = STAT_ASSIGNED
    /\ queue[j].parseend # NULL
    /\ \E w \in Workers :
         ret[w].op = "update" /\ ret[w].code = 1 /\ arg[w].submid = j
           /\ arg[w].status = STAT_ASSIGNED

\* ---------------------------------------------------- claims on pgsql_INSERT
InsertOk(w) == pc[w] = "idle" /\ ret[w].op = "insert" /\ ret[w].code = 1
\* the call failed at an execution (not at PQprepare)
InsertExecFailed(w) ==
  pc[w] = "idle" /\ ret[w].op = "insert" /\ ret[w].code = 0 /\ ins[w].i >= 1
\* the row of tbl that the i-th execution of w's call wrote has id v
WroteRow(w, i, v) ==
  \E r \in 1..Len(tbl) : tbl[r].id = v /\ tbl[r].by = w /\ tbl[r].recno = i
RowsOf(w) == {r \in 1..Len(tbl) : tbl[r].by = w}

\* C6: a call with the key attribute set whose N records all executed
\* returns N entries; the i-th is stored under the key's name and holds the
\* value the server returned for the execution of the i-th record.
C6_ReturningKeys ==
  \A w \in Workers :
    /\ (pc[w] = "ins_loop" /\ ins[w].key # "") => Len(ins[w].res) = ins[w].i
    /\ (InsertOk(w) /\ ins[w].key # "") =>
         /\ Len(ret[w].list) = ins[w].n
         /\ \A i \in 1..ins[w].n :
              /\ ret[w].list[i].key = ins[w].key
              /\ WroteRow(w, i, ret[w].list[i].val)

C6_Witness ==
  \E w \in Workers :
    /\ InsertOk(w) /\ ins[w].key # ""
    /\ ins[w].n >= 2 /\ Len(ret[w].list) = ins[w].n
    /\ ret[w].list[1].val # 1

\* C7: a call without the key attribute whose N records all executed returns
\* N entries in record order, each stored under "oid" and each holding the
\* row identifier the server assigned at that record's own execution, or 0.
C7_FallbackOids ==
  \A w \in Workers :
    (InsertOk(w) /\ ins[w].key = "") =>
      /\ Len(ret[w].list) = ins[w].n
      /\ \A i \in 1..ins[w].n :
           /\ ret[w].list[i].key = "oid"
           /\ ret[w].list[i].val = 0 \/ WroteRow(w, i, ret[w].list[i].val)

\* C8: when the execution of record k is the first not to return the expected
\* status, the call returns NULL with no result list, the rows written for
\* records 1..k-1 are in the table, and no record after k was executed.
C8_FailFast ==
  \A w \in Workers :
    InsertExecFailed(w) =>
      LET k == ins[w].i IN
      /\ ret[w].list = <<>>
      /\ \A i \in 1..(k - 1) : \E r \in RowsOf(w) : tbl[r].recno = i
      /\ \A r \in RowsOf(w) : tbl[r].recno \in 1..(k - 1)
      /\ Cardinality(RowsOf(w)) = k - 1

C8_Witness ==
  \E w \in Workers :
    /\ InsertExecFailed(w)
    /\ ins[w].i = 2 /\ ins[w].n > 2
    /\ Cardinality(RowsOf(w)) = 1

Reorderings(rec) ==
  {[k \in 1..Len(rec) |-> rec[p[k]]] :
     p \in {q \in [1..Len(rec) -> 1..Len(rec)] : IsInjective(q)}}
Bound(w) == pc[w] = "ins_exec"

\* the fields are declared with the ids 0, 1, ... in this order
IdsArePositions(w) ==
  \A k \in 1..Len(ins[w].fields) : ins[w].fields[k].fid = k - 1

\* C9: the values of a record are bound by field id: the parameter of the
\* declared field with id f is the content of the record's value with fid f,
\* and listing the values of the record in another order binds the same.
\* (Stated for documents whose field ids are 0, 1, ... in declared order and
\* records with one value per field.)
C9_BindByFieldId ==
  \A w \in Workers :
    (/\ Bound(w) /\ IdsArePositions(w)
     /\ ins[w].rec \in WellFormedRecords(ins[w].fields)) =>
      /\ \A k \in 1..Len(ins[w].fields) :
           ins[w].value_ar[k] = Value(ins[w].fields[k].fid).content
      /\ \A p \in Reorderings(ins[w].rec) :
           BindRecord(ins[w].fields, p).value_ar = ins[w].value_ar

InDeclaredOrder(w) == ins[w].rec = DeclaredOrderRecord(ins[w].fields)

\* C10: for any unique field ids (1 and 2 as well as 0 and 1) and a record
\* listing one value per field in the declared order, every slot written is
\* inside value_ar, every field's parameter is the content of the value with
\* its id, the row written holds that content in the column of that name,
\* and with a key the call returns the one key the server generated.
C10_ByNameAnyIds ==
  \A w \in Workers :
    /\ (Bound(w) /\ InDeclaredOrder(w)) =>
         /\ ins[w].oob = {}
         /\ \A k \in 1..Len(ins[w].fields) :
              ins[w].value_ar[k] = Value(ins[w].fields[k].fid).content
    /\ (InDeclaredOrder(w) /\ ins[w].n = 1) =>
         \A r \in RowsOf(w) :
           /\ tbl[r].cols =
                [k \in 1..Len(ins[w].fields) |->
                   [name |-> ins[w].fields[k].name,
                    val |-> Value(ins[w].fields[k].fid).content]]
           /\ (InsertOk(w) /\ ins[w].key # "") =>
                ret[w].list = <<[key |-> ins[w].key, val |-> tbl[r].id]>>

\* ------------------------------------------------- malformed records, prepare
DeclaredFids(fields) == {fields[k].fid : k \in 1..Len(fields)}
ValueFids(rec) == {rec[k].fid : k \in 1..Len(rec)}
\* a value with an undeclared field id, a declared field without a value, or
\* more values than declared fields
Malformed(fields, rec) ==
  \/ ~(ValueFids(rec) \subseteq DeclaredFids(fields))
  \/ ~(DeclaredFids(fields) \subseteq ValueFids(rec))
  \/ Len(rec) > Len(fields)

\* C11: a record with a value whose fid is not declared, or without a value
\* for a declared field, or with more values than declared fields, is never
\* handed to PQexecPrepared: the call writes no row for it and does not
\* return a result list.
C11_RejectMalformed ==
  \A w \in Workers :
    (ins[w].i >= 1 /\ Malformed(ins[w].fields, ins[w].rec)) =>
      /\ pc[w] # "ins_exec"
      /\ RowsOf(w) = {}
      /\ ~InsertOk(w)

\* C12: PQprepare is called once per call whatever the number of records
\* (never again once the loop runs); a call of zero records that returns after
\* a successful PQprepare returns an empty list, not NULL, and has written no
\* row; a call whose PQprepare failed returns NULL with no execution, the
\* number of records being zero or not.
C12_PrepareOnce ==
  \A w \in Workers :
    /\ pc[w] \in {"ins_loop", "ins_exec", "ins_oid", "ins_oidadd"} => ins[w].nprep = 1
    /\ (pc[w] = "idle" /\ ret[w].op = "insert") => ins[w].nprep = 1
    /\ (InsertOk(w) /\ ins[w].n = 0) =>
         /\ ret[w].list = <<>>
         /\ RowsOf(w) = {}
    /\ (pc[w] = "idle" /\ ret[w].op = "insert" /\ ins[w].prep # PGRES_COMMAND_OK) =>
         /\ ret[w].code = 0
         /\ ins[w].i = 0
         /\ RowsOf(w) = {}
    /\ (pc[w] = "idle" /\ ret[w].op = "insert" /\ ins[w].n = 0) =>
         (ret[w].code = 1 <=> ins[w].prep = PGRES_COMMAND_OK)

\* a call of zero records returned the empty list after its one PQprepare
C12_Witness ==
  \E w \in Workers :
    /\ InsertOk(w) /\ ins[w].n = 0 /\ ins[w].nprep = 1
    /\ ret[w].list = <<>>

\* ------------------------------------------- claims on db_register_system
SystemCalls == {c \in 1..Len(calls) : calls[c].fn = "db_register_system"}
RowsWithSysid(table, sysid) == {r \in 1..Len(table) : table[r].sysid = sysid}
OneRowPerSysid(table) ==
  \A sid \in Sysids : Cardinality(RowsWithSysid(table, sid)) <= 1
\* the pair is bound to the system with this syskey
BoundTo(table, host, syskey) ==
  \E r \in 1..Len(table) :
    /\ table[r].syskey = syskey
    /\ table[r].hostname = host.hostname /\ table[r].ipaddr = host.ipaddr
\* the call found exactly one row for its sysid, with this syskey
Existing(c, syskey) ==
  /\ Cardinality(RowsWithSysid(calls[c].systems0, calls[c].sysid)) = 1
  /\ \E r \in RowsWithSysid(calls[c].systems0, calls[c].sysid) :
       calls[c].systems0[r].key = syskey

\* C13: from a systems table with at most one row per sysid, two successive
\* db_register_system calls for the same sysid that both return a syskey
\* return the same one, and the second writes no systems row: one row with
\* that sysid before it and after it.
C13_Idempotent ==
  \A c \in SystemCalls, d \in SystemCalls :
    (/\ d = c + 1
     /\ calls[c].sysid = calls[d].sysid
     /\ calls[c].code > 0 /\ calls[d].code > 0
     /\ OneRowPerSysid(calls[c].systems0)) =>
      /\ calls[d].code = calls[c].code
      /\ calls[d].systems1 = calls[d].systems0
      /\ Cardinality(RowsWithSysid(calls[d].systems1, calls[d].sysid)) = 1

\* the first call registered an unknown sysid, the second found it
C13_Witness ==
  \E c \in SystemCalls, d \in SystemCalls :
    /\ d = c + 1
    /\ calls[c].sysid = calls[d].sysid
    /\ calls[c].code > 0 /\ calls[d].code = calls[c].code
    /\ OneRowPerSysid(calls[c].systems0)
    /\ RowsWithSysid(calls[c].systems0, calls[c].sysid) = {}
    /\ Len(calls[c].systems0) >= 1
    /\ calls[d].host # calls[c].host

\* C14: a call that returns a syskey for a sysid with exactly one systems row
\* (syskey s) leaves the systems table as it was and returns s; when its
\* (hostname, ipaddr) was not bound to s it appends exactly one
\* systems_hostname row, binding the pair to s, and when it was bound to s it
\* writes nothing.
C14_HostBinding ==
  \A c \in SystemCalls : \A s \in 1..Len(calls[c].systems0) :
    (calls[c].code > 0 /\ Existing(c, s)) =>
      /\ calls[c].systems1 = calls[c].systems0
      /\ calls[c].code = s
      /\ IF BoundTo(calls[c].hosts0, calls[c].host, s)
           THEN calls[c].hosts1 = calls[c].hosts0
           ELSE /\ Len(calls[c].hosts1) = Len(calls[c].hosts0) + 1
                /\ SubSeq(calls[c].hosts1, 1, Len(calls[c].hosts0)) = calls[c].hosts0
                /\ LET row == calls[c].hosts1[Len(calls[c].hosts1)] IN
                     /\ row.syskey = s
                     /\ row.hostname = calls[c].host.hostname
                     /\ row.ipaddr = calls[c].host.ipaddr

\* C15: after a call that returns a syskey for a sysid with exactly one
\* systems row (syskey s), systems_hostname holds a row binding the call's
\* (hostname, ipaddr) to s, whatever other system the pair was bound to.
C15_ScopedDedup ==
  \A c \in SystemCalls : \A s \in 1..Len(calls[c].systems0) :
    (calls[c].code > 0 /\ Existing(c, s)) =>
      BoundTo(calls[c].hosts1, calls[c].host, s)

\* C16: a call whose SELECT by sysid finds more than one row returns -1 and
\* leaves the systems and the systems_hostname table as they were.
C16_Duplicates ==
  \A c \in SystemCalls :
    Cardinality(RowsWithSysid(calls[c].systems0, calls[c].sysid)) > 1 =>
      /\ calls[c].code = 0 - 1
      /\ calls[c].systems1 = calls[c].systems0
      /\ calls[c].hosts1 = calls[c].hosts0

\* the SELECT of the call did return two rows
C16_Witness ==
  \E c \in SystemCalls :
    /\ calls[c].ntuples = 2
    /\ calls[c].code = 0 - 1
    /\ calls[c].systems1 = calls[c].systems0

\* --------------------- claims on db_register_rtevalrun, db_register_cyclictest
RunCalls == {c \in 1..Len(calls) : calls[c].fn = "db_register_rtevalrun"}
CyclicCalls == {c \in 1..Len(calls) : calls[c].fn = "db_register_cyclictest"}
\* the insert was made, returned a list, and the list has exactly one entry
YieldedOne(i) == i.tried /\ i.ok /\ i.n = 1
\* the insert was made, returned a list, and the list has an entry
YieldedSome(i) == i.tried /\ i.ok /\ i.n >= 1

\* C17: db_register_rtevalrun returns a positive rterid exactly when the
\* rtevalruns insert returned one entry with a value >= 1 and the
\* rtevalruns_details insert returned one entry too, and the value returned is
\* that of the first entry; in every other case it returns -1.  The details
\* insert is made only after such a run insert, and when it fails the rows
\* the run insert wrote to rtevalruns are still there.
C17_RunRegistered ==
  \A c \in RunCalls :
    LET call == calls[c]
        good == /\ YieldedOne(call.first) /\ call.first.val >= 1
                /\ YieldedOne(call.second)
    IN /\ call.code > 0 <=> good
       /\ good => call.code = call.first.val
       /\ ~good => call.code = 0 - 1
       /\ call.second.tried => (YieldedOne(call.first) /\ call.first.val >= 1)
       /\ call.t1after = call.t1mid
       /\ ~call.second.tried => call.t2after = call.t2before

\* the run insert wrote its row and returned its rterid, the details insert
\* failed at its execution: -1 is returned and the rtevalruns row is kept
C17_Witness ==
  \E c \in RunCalls :
    /\ YieldedOne(calls[c].first) /\ calls[c].first.val >= 1
    /\ calls[c].second.tried /\ ~calls[c].second.ok
    /\ calls[c].code = 0 - 1
    /\ \E r \in 1..Len(calls[c].t1after) :
         calls[c].t1after[r].key = calls[c].first.val
    /\ \E d \in RunCalls : calls[d].code > 0

\* C18: db_register_cyclictest returns 1 exactly when the cyclic_statistics
\* insert and then the cyclic_rawdata insert each returned a list of at
\* least one entry, and -1 otherwise; a document of no records makes it
\* return -1 although pgsql_INSERT returned a list; the cyclic_rawdata insert
\* is made only after a cyclic_statistics insert that returned an entry.
C18_StatsRegistered ==
  \A c \in CyclicCalls :
    LET call == calls[c]
        good == YieldedSome(call.first) /\ YieldedSome(call.second)
    IN /\ call.code = 1 <=> good
       /\ ~good => call.code = 0 - 1
       /\ (call.first.tried /\ call.first.ok /\ call.first.n = 0) => call.code = 0 - 1
       /\ (call.second.tried /\ call.second.ok /\ call.second.n = 0) =>
            call.code = 0 - 1
       /\ call.second.tried => YieldedSome(call.first)

\* one call failed on an empty raw-data document after its statistics were
\* written, another returned 1 with two statistics records
C18_Witness ==
  /\ \E c \in CyclicCalls :
       /\ YieldedSome(calls[c].first)
       /\ calls[c].second.tried /\ calls[c].second.ok /\ calls[c].second.n = 0
       /\ calls[c].code = 0 - 1
  /\ \E c \in CyclicCalls :
       calls[c].code = 1 /\ calls[c].first.n = 2

\* ------------------------------------ claims on the lock of the checkout
\* the worker is about to issue its SELECT, or between its SELECT and the
\* return of its UPDATE
InSection(w) == pc[w] \in {"select", "mark"}

\* C19: a worker between issuing its SELECT and the return of its UPDATE holds
\* the mutex, so at most one worker is there; and while a worker is between
\* its SELECT and its UPDATE no other worker's SELECT is executed.
C19_LockCoversReadAndMark ==
  [][/\ \A w \in Workers : InSection(w)' => mtx' = w
     /\ Cardinality({w \in Workers : InSection(w)'}) <= 1
     /\ \A w \in Workers : \A v \in Workers \ {w} :
          pc[w] = "mark" => ~(pc[v] = "select" /\ pc'[v] # "select")]_vars

\* one worker is between its SELECT and its UPDATE while another waits for
\* the mutex
C19_Witness ==
  \E w \in Workers : \E v \in Workers \ {w} :
    /\ pc[w] = "mark" /\ mtx = w
    /\ pc[v] = "lock"

\* C20: when the UPDATE to STAT_ASSIGNED of a checkout fails, the call returns
\* NULL (no job object, not the "no job" result) with the mutex released, the
\* submissionqueue table is as it was, the job is still STAT_NEW and it is
\* the job the next SELECT returns.
C20_MarkFailure ==
  [][\A w \in Workers :
       (pc[w] = "mark" /\ pc'[w] = "idle") =>
         /\ mtx' = 0
         /\ ret'[w] = Ret("checkout", 0, TRUE, NoJob, <<>>)
         /\ queue' = queue
         /\ queue'[job[w].submid].status = STAT_NEW
         /\ SelectFirstNew(queue') = {job[w].submid}
         /\ delivered' = delivered]_vars

\* a worker's call failed at the UPDATE, and every job has been delivered
\* once since
C20_Witness ==
  /\ \E w \in Workers :
       pc[w] = "idle" /\ ret[w] = Ret("checkout", 0, TRUE, NoJob, <<>>)
  /\ \A j \in Jobs : delivered[j] = 1 /\ queue[j].status = STAT_ASSIGNED

\* ------------------------------------------- claims on the checkout order
NewJobs(q) == {j \in Jobs : q[j].status = STAT_NEW}

\* C21: the job a checkout's SELECT reads is the one with the lowest submid
\* among the STAT_NEW jobs at that moment, the job a successful call returns
\* is the one it read, and a job is marked STAT_ASSIGNED only when no job with
\* a lower submid is STAT_NEW (of two new jobs the lower is marked first).
C21_AscendingOrder ==
  [][/\ \A w \in Workers :
          (pc[w] = "select" /\ pc'[w] = "mark") =>
            /\ job'[w].submid \in NewJobs(queue)
            /\ \A k \in NewJobs(queue) : job'[w].submid <= k
     /\ \A w \in Workers :
          (pc[w] = "unlock" /\ pc'[w] = "idle" /\ ret'[w].job.status = "jbAVAIL") =>
            /\ ret'[w].job.submid = job[w].submid
            /\ queue[job[w].submid].status = STAT_ASSIGNED
     /\ \A b \in Jobs :
          (queue[b].status = STAT_NEW /\ queue'[b].status = STAT_ASSIGNED) =>
            \A a \in Jobs : a < b => queue[a].status # STAT_NEW]_vars

\* of two jobs new at the start the lower one has been returned and the
\* higher one has been read and is about to be marked
C21_Witness ==
  \E a \in Jobs, b \in Jobs :
    /\ a < b
    /\ queue0[a].status = STAT_NEW /\ queue0[b].status = STAT_NEW
    /\ queue[a].status = STAT_ASSIGNED /\ delivered[a] = 1
    /\ queue[b].status = STAT_NEW
    /\ \E w \in Workers : pc[w] = "mark" /\ job[w].submid = b

\* ------------------------------------ claims on concurrent registration
\* C22: the systems table holds at most one row per sysid in every state
\* reached by db_register_system calls of concurrent workers from a table
\* with at most one row per sysid.
C22_UniqueSysid ==
  \A sid \in Sysids : Cardinality(RowsWithSysid(systems, sid)) <= 1

\* ------------------------------------------- claims on the lock's release
\* C23: a worker that is not inside db_get_submissionqueue_job, or has not
\* locked yet, does not hold the mutex (whichever way its call returned:
\* failed malloc, failed SELECT, job marked, failed UPDATE, no job), the
\* holder of the mutex is a worker between its lock and its return, and
\* every worker inside the function returns at some time.
C23_ReturnsUnlocked ==
  /\ [](\A w \in Workers :
          /\ pc[w] \in {"idle", "lock"} => mtx # w
          /\ mtx = w => pc[w] \in {"select", "mark", "unlock"})
  /\ \A w \in Workers : (pc[w] # "idle") ~> (pc[w] = "idle")

\* one worker's call failed after it had locked, another's returned a job,
\* a third path ended at malloc or with no job, and the mutex is free
C23_Witness ==
  /\ mtx = 0
  /\ \A w \in Workers : pc[w] = "idle" /\ ret[w].op = "checkout"
  /\ \E w \in Workers : ret[w] = Ret("checkout", 0, TRUE, NoJob, <<>>)
  /\ \E w \in Workers : ret[w].code = 1 /\ ret[w].job.status = "jbAVAIL"

====
